---------------------------- MODULE Spec2Model ----------------------------
(***************************************************************************)
(* A model of the bus-display worker: the fetch handler of worker.js, its  *)
(* processGTFSData / formatResults / formatArrivalTime, and the single-    *)
(* stop variant of the same pipeline.                                      *)
(*                                                                         *)
(* JavaScript strings are sequences of one-character strings, so that      *)
(* split, String(n) and template literals are computed and not assumed.    *)
(* An optional field is a flag (hasX) beside the field.                    *)
(***************************************************************************)
EXTENDS Integers, Sequences, FiniteSets, Bags, TLC

VARIABLES
    clock,            \* Math.floor(Date.now() / 1000), the environment's clock
    ticks,            \* how often the clock has advanced
    upstream,         \* the feed snapshot the upstream server holds
    request,          \* per request: the Request given to fetch
    pc,               \* per request: where the handler stands
    stopIds,          \* per request: requestedStopIds
    gtfsData,         \* per request: the decoded feed given to processGTFSData
    nowTimestamp,     \* per request: processGTFSData's nowTimestamp
    stopArrivals,     \* per request: the Map stopId -> arrivals, in insertion order
    stopsNeedingMore, \* per request: the early-exit counter
    ei,               \* per request: index of the entity the outer loop is at
    ui,               \* per request: index of the stop-time-update the inner loop is at
    routeId,          \* per request: the routeId of the trip being scanned
    results,          \* per request: what formatResults returned
    responses,        \* per request: the Responses the handler returned
    fetches,          \* per request: upstream fetches issued
    outcome,          \* per request: how the upstream fetch went
    processCalls,     \* per request: calls of processGTFSData
    singleArrivals,   \* per request: the arrivals array of the single-stop variant
    singleResult,     \* per request: what the single-stop processGTFSData returned
    fmtArgs,          \* the arguments of a direct call of formatArrivalTime
    fmtResult         \* what that call returned

vars == <<clock, ticks, upstream, request, pc, stopIds, gtfsData, nowTimestamp,
          stopArrivals, stopsNeedingMore, ei, ui, routeId, results, responses,
          fetches, outcome, processCalls, singleArrivals, singleResult, fmtArgs, fmtResult>>

-----------------------------------------------------------------------------
(* Program constants and model bounds *)

MAX_ARRIVALS == 8

\* longest feed (in entities) of the freely composed feeds
MaxFeed == 2

\* how often the clock may advance during one run
MaxTicks == 1

\* longest raw route id of the route-normalisation inputs
MaxRouteLen == 3

-----------------------------------------------------------------------------
(* Strings *)

DigitChars == <<"0", "1", "2", "3", "4", "5", "6", "7", "8", "9">>

\* String(n) / `${n}` of a non-negative integer
RECURSIVE NumberToString(_)
NumberToString(n) ==
    IF n < 10 THEN <<DigitChars[n + 1]>>
    ELSE Append(NumberToString(n \div 10), DigitChars[(n % 10) + 1])

\* String(id) of a request's stop id: a string stays, a number is printed
String(id) == IF id.isNumber THEN NumberToString(id.num) ELSE id.str

Contains(s, ch) == \E i \in 1..Len(s) : s[i] = ch

\* (mutant) the text before the last '-'
SplitLast(rawRouteId) ==
    IF Contains(rawRouteId, "-")
    THEN LET last == CHOOSE i \in 1..Len(rawRouteId) :
                         /\ rawRouteId[i] = "-"
                         /\ \A j \in (i + 1)..Len(rawRouteId) : rawRouteId[j] # "-"
         IN  SubSeq(rawRouteId, 1, last - 1)
    ELSE rawRouteId

\* rawRouteId.split('-')[0]: the text before the first '-', or all of it
SplitFirst(rawRouteId) ==
    IF Contains(rawRouteId, "-")
    THEN LET first == CHOOSE i \in 1..Len(rawRouteId) :
                          /\ rawRouteId[i] = "-"
                          /\ \A j \in 1..(i - 1) : rawRouteId[j] # "-"
         IN  SubSeq(rawRouteId, 1, first - 1)
    ELSE rawRouteId

-----------------------------------------------------------------------------
(* formatArrivalTime *)

\* America/Los_Angeles offset from UTC in seconds, by the zone's rules of
\* 1970 (the year the model's timestamps lie in): PDT from 26 April 02:00 PST
\* to 25 October 02:00 PDT, PST otherwise.
UtcOffset(timestamp) ==
    IF timestamp >= 9972000 /\ timestamp < 25693200 THEN -25200 ELSE -28800

\* new Date(timestamp * 1000).toLocaleTimeString('en-US', {timeZone:
\* 'America/Los_Angeles', hour: 'numeric', minute: '2-digit', hour12: true})
\* .toLowerCase()
WallClock(timestamp) ==
    LET local  == (timestamp + UtcOffset(timestamp)) % 86400
        hour24 == local \div 3600
        minute == (local % 3600) \div 60
        hour12 == IF hour24 % 12 = 0 THEN 12 ELSE hour24 % 12
        mm     == IF minute < 10 THEN <<"0">> \o NumberToString(minute)
                  ELSE NumberToString(minute)
    IN  NumberToString(hour12) \o <<":">> \o mm \o <<" ">>
           \o (IF hour24 < 12 THEN <<"a", "m">> ELSE <<"p", "m">>)

Max(a, b) == IF a >= b THEN a ELSE b

\* minutesUntilArrival: Math.floor((timestamp - nowTimestamp) / 60)
MinutesUntilArrival(timestamp, now) == (timestamp - now) \div 60

\* (mutant) the zero-minute case is not singled out
RelativeTimeNoNow(timestamp, now, unit) ==
    NumberToString(Max(0, MinutesUntilArrival(timestamp, now))) \o unit

RelativeTime(timestamp, now, unit) ==
    LET minutes == Max(0, MinutesUntilArrival(timestamp, now))
    IN  IF minutes = 0 THEN <<"N", "o", "w">>
        ELSE NumberToString(minutes) \o unit

formatArrivalTime(timestamp, now) ==
    IF MinutesUntilArrival(timestamp, now) < 60
    THEN RelativeTime(timestamp, now, <<" ", "m", "i", "n">>)
    ELSE WallClock(timestamp)

\* the single-stop variant's formatArrivalTime: the unit is "m"
SingleFormatArrivalTime(timestamp, now) ==
    IF MinutesUntilArrival(timestamp, now) < 60
    THEN RelativeTime(timestamp, now, <<" ", "m">>)
    ELSE WallClock(timestamp)

-----------------------------------------------------------------------------
(* The feed: gtfsData.entity[].tripUpdate.{trip.routeId, stopTimeUpdate[]} *)

\* !stopUpdate.arrival?.time is false: an arrival with a time that is not 0
HasArrivalTime(stopUpdate) ==
    stopUpdate.hasArrival /\ stopUpdate.hasTime /\ stopUpdate.time # 0

\* (mutant) a trip without a route id is scanned like any other
HasRouteIdAlways(tripUpdate) == TRUE

\* !rawRouteId is false: tripUpdate.trip?.routeId is a non-empty string
HasRouteId(tripUpdate) ==
    tripUpdate.hasTrip /\ tripUpdate.hasRouteId /\ tripUpdate.routeId # <<>>

\* stopUpdate.arrival.delay || 0
DelayOrZero(stopUpdate) == IF stopUpdate.hasDelay THEN stopUpdate.delay ELSE 0

-----------------------------------------------------------------------------
(* stopArrivals: a Map, kept as the sequence of its entries in insertion order *)

MapHas(map, key) == \E i \in 1..Len(map) : map[i].stopId = key

MapGet(map, key) == map[CHOOSE i \in 1..Len(map) : map[i].stopId = key].arrivals

\* (mutant) an array of entries in place of the Map: set always appends
MapSetAppends(map, key, value) ==
    Append(map, [stopId |-> key, arrivals |-> value])

\* Map.prototype.set: a key already there keeps its place and takes the value
MapSet(map, key, value) ==
    IF MapHas(map, key)
    THEN [i \in 1..Len(map) |->
             IF map[i].stopId = key THEN [stopId |-> key, arrivals |-> value]
             ELSE map[i]]
    ELSE Append(map, [stopId |-> key, arrivals |-> value])

\* requestedStopIds.forEach(stopId => stopArrivals.set(stopId, []))
RECURSIVE SeedArrivals(_, _)
SeedArrivals(map, requestedStopIds) ==
    IF requestedStopIds = <<>> THEN map
    ELSE SeedArrivals(MapSet(map, Head(requestedStopIds), <<>>),
                      Tail(requestedStopIds))

-----------------------------------------------------------------------------
(* processGTFSData's decisions on one stop-time-update *)

\* (mutant) < for <=: an arrival at now itself is kept
NotFutureStrict(arrivalTime, now) == arrivalTime < now

\* arrivalTime <= nowTimestamp: the update is skipped
NotFuture(arrivalTime, now) == arrivalTime <= now

\* (mutant) the check for future arrivals is left out
AdmitsPast(map, stopUpdate, now) ==
    /\ MapHas(map, stopUpdate.stopId)
    /\ HasArrivalTime(stopUpdate)

\* the three `continue`s of the inner loop all passed
Admits(map, stopUpdate, now) ==
    /\ MapHas(map, stopUpdate.stopId)
    /\ HasArrivalTime(stopUpdate)
    /\ ~NotFuture(stopUpdate.time, now)

\* (mutant) the delay is not copied
CandidateNoDelay(route, stopUpdate) ==
    [routeId          |-> route,
     arrivalTimestamp |-> stopUpdate.time,
     deviation        |-> 0]

\* the object pushed for an admitted update
Candidate(route, stopUpdate) ==
    [routeId          |-> route,
     arrivalTimestamp |-> stopUpdate.time,
     deviation        |-> DelayOrZero(stopUpdate)]

\* (mutant) every append at or past the threshold counts
HasEnoughOrMore(arrivals) == Len(arrivals) >= MAX_ARRIVALS * 3

\* arrivals.length === MAX_ARRIVALS * 3
HasEnough(arrivals) == Len(arrivals) = MAX_ARRIVALS * 3

-----------------------------------------------------------------------------
(* formatResults *)

\* (mutant) the comparator with its operands exchanged
CompareDescending(a, b) == b.arrivalTimestamp - a.arrivalTimestamp

\* the comparator (a, b) => a.arrivalTimestamp - b.arrivalTimestamp
Compare(a, b) == a.arrivalTimestamp - b.arrivalTimestamp

\* (mutant) an element goes before those equal to it
RECURSIVE InsertBeforeTies(_, _)
InsertBeforeTies(sorted, a) ==
    IF sorted = <<>> THEN <<a>>
    ELSE IF Compare(a, Head(sorted)) <= 0 THEN <<a>> \o sorted
    ELSE <<Head(sorted)>> \o InsertBeforeTies(Tail(sorted), a)

\* Array.prototype.sort is stable: an element goes after those not greater
RECURSIVE InsertSorted(_, _)
InsertSorted(sorted, a) ==
    IF sorted = <<>> THEN <<a>>
    ELSE IF Compare(a, Head(sorted)) < 0 THEN <<a>> \o sorted
    ELSE <<Head(sorted)>> \o InsertSorted(Tail(sorted), a)

RECURSIVE SortArrivals(_)
SortArrivals(arrivals) ==
    IF arrivals = <<>> THEN <<>>
    ELSE InsertSorted(SortArrivals(SubSeq(arrivals, 1, Len(arrivals) - 1)),
                      arrivals[Len(arrivals)])

\* arrivals.slice(0, MAX_ARRIVALS)
Slice(arrivals) ==
    SubSeq(arrivals, 1, IF Len(arrivals) < MAX_ARRIVALS THEN Len(arrivals)
                        ELSE MAX_ARRIVALS)

\* the object the map callback builds: no arrivalTimestamp field
Formatted(a, now) ==
    [routeId   |-> a.routeId,
     arriving  |-> formatArrivalTime(a.arrivalTimestamp, now),
     deviation |-> a.deviation]

LimitedArrivals(arrivals, now) ==
    LET kept == Slice(SortArrivals(arrivals))
    IN  [i \in 1..Len(kept) |-> Formatted(kept[i], now)]

formatResults(map, now) ==
    [i \in 1..Len(map) |->
        [stopId   |-> map[i].stopId,
         arrivals |-> LimitedArrivals(map[i].arrivals, now)]]

\* the buffers after formatResults: sort works in place
SortedInPlace(map) ==
    [i \in 1..Len(map) |->
        [stopId |-> map[i].stopId, arrivals |-> SortArrivals(map[i].arrivals)]]

-----------------------------------------------------------------------------
(* Inputs: stops, stop-time-updates, feed entities, feeds, requests *)

\* the clock when a run begins: half an hour before the zone changes to PDT
T0 == 9972000 - 1800

StopA == <<"7">>
StopB == <<"1", "2">>
StopC == <<"9">>

Upd(stop, time, hasDelay, delay) ==
    [stopId |-> stop, hasArrival |-> TRUE, hasTime |-> TRUE, time |-> time,
     hasDelay |-> hasDelay, delay |-> delay]

\* a stop-time-update with no arrival at all
UpdNoArrival(stop) ==
    [stopId |-> stop, hasArrival |-> FALSE, hasTime |-> FALSE, time |-> 0,
     hasDelay |-> FALSE, delay |-> 0]

\* a stop-time-update whose arrival carries a delay and no time
UpdNoTime(stop) ==
    [stopId |-> stop, hasArrival |-> TRUE, hasTime |-> FALSE, time |-> 0,
     hasDelay |-> TRUE, delay |-> 45]

Trip(route, updates) ==
    [hasTripUpdate |-> TRUE, hasTrip |-> TRUE, hasRouteId |-> TRUE,
     routeId |-> route, hasStopTimeUpdate |-> TRUE, stopTimeUpdate |-> updates]

\* the scenario of the documentation: route 28-VIC, 150 s out, no delay given
TripScenario ==
    Trip(<<"2", "8", "-", "V", "I", "C">>, <<Upd(StopA, T0 + 150, FALSE, 0)>>)

\* out of order at one stop, with a tie, and a second stop
TripMixed ==
    Trip(<<"4">>, <<Upd(StopA, T0 + 150, TRUE, 60),
                    Upd(StopB, T0 + 420, TRUE, -30),
                    Upd(StopA, T0 + 90, TRUE, 0)>>)

\* every way an update is skipped, then arrivals an hour and more out
TripSkips ==
    Trip(<<"7", "-", "A", "-", "B">>,
         <<Upd(StopC, T0 + 300, FALSE, 0), UpdNoArrival(StopA), UpdNoTime(StopA),
           Upd(StopA, T0, TRUE, 5), Upd(StopA, T0 + 30, TRUE, 10),
           Upd(StopA, T0 - 60, FALSE, 0), Upd(StopB, T0 + 5400, TRUE, 120),
           Upd(StopA, T0 + 3630, FALSE, 0)>>)

\* an entity that is no trip update (a vehicle position, an alert)
NoTripUpdate ==
    [hasTripUpdate |-> FALSE, hasTrip |-> FALSE, hasRouteId |-> FALSE,
     routeId |-> <<>>, hasStopTimeUpdate |-> FALSE, stopTimeUpdate |-> <<>>]

\* a trip update with no trip descriptor, one with an empty route id
TripNoTrip ==
    [hasTripUpdate |-> TRUE, hasTrip |-> FALSE, hasRouteId |-> FALSE,
     routeId |-> <<>>, hasStopTimeUpdate |-> TRUE,
     stopTimeUpdate |-> <<Upd(StopA, T0 + 200, FALSE, 0)>>]

TripEmptyRoute ==
    Trip(<<>>, <<Upd(StopB, T0 + 240, TRUE, 15)>>)

\* a route id that begins with the separator
TripDashFirst ==
    Trip(<<"-", "X">>, <<Upd(StopB, T0 + 45, FALSE, 0),
                         Upd(StopA, T0 + 61, TRUE, -5)>>)

\* a trip update with no stopTimeUpdate list
TripNoUpdates ==
    [hasTripUpdate |-> TRUE, hasTrip |-> TRUE, hasRouteId |-> TRUE,
     routeId |-> <<"9">>, hasStopTimeUpdate |-> FALSE, stopTimeUpdate |-> <<>>]

Catalog ==
    {TripScenario, TripMixed, TripSkips, NoTripUpdate, TripNoTrip,
     TripEmptyRoute, TripDashFirst, TripNoUpdates}

\* the i-th trip of a long run of trips at StopA (and StopB when both):
\* arrival times scrambled over five values, the delay naming the trip
RunTrip(i, both) ==
    Trip(<<"6", "-", "N">>,
         <<Upd(StopA, T0 + 600 + 120 * ((i * 7) % 5), TRUE, i)>>
         \o (IF both THEN <<Upd(StopB, T0 + 900 - 10 * i, TRUE, -i)>> ELSE <<>>))

RunOf(n, both) == [i \in 1..n |-> RunTrip(i, both)]

SeqsUpTo(S, n) == UNION {[1..k -> S] : k \in 0..n}

\* feeds composed freely from the catalog
ShortFeeds == SeqsUpTo(Catalog, MaxFeed)

\* feeds that bring a stop to the early-exit threshold or one short of it,
\* followed by at most one more entity
LongFeeds ==
    {RunOf(n, both) \o rest :
        n \in {MAX_ARRIVALS * 3 - 1, MAX_ARRIVALS * 3},
        both \in BOOLEAN,
        rest \in SeqsUpTo(Catalog, 1)}

Feed(entities) == [hasEntity |-> TRUE, entity |-> entities]

\* a feed object with no entity list
NoEntityFeed == [hasEntity |-> FALSE, entity |-> <<>>]

ProcessFeeds == {Feed(f) : f \in ShortFeeds \cup LongFeeds} \cup {NoEntityFeed}

RequestedLists ==
    {<<StopA>>, <<StopA, StopB>>, <<StopB, StopA>>, <<StopA, StopA>>}

\* a stop id as the request's JSON gives it: a string or a number
StrId(s) == [isNumber |-> FALSE, num |-> 0, str |-> s]
NumId(n) == [isNumber |-> TRUE, num |-> n, str |-> <<>>]

\* a request body: whether request.json() parses it, whether it is JSON null,
\* whether it has a truthy stopIds, whether that is an array, and its items
Body(parses, isNull, hasStopIds, isArray, items) ==
    [parses |-> parses, isNull |-> isNull, hasStopIds |-> hasStopIds,
     isArray |-> isArray, items |-> items]

BodyOf(ids) == Body(TRUE, FALSE, TRUE, TRUE, ids)

ValidBodies ==
    {BodyOf(<<StrId(StopA)>>),
     BodyOf(<<NumId(12), StrId(StopA)>>),
     BodyOf(<<StrId(StopA), NumId(7)>>)}

InvalidBodies ==
    {Body(FALSE, FALSE, FALSE, FALSE, <<>>),     \* not JSON
     Body(TRUE, TRUE, FALSE, FALSE, <<>>),       \* null
     Body(TRUE, FALSE, FALSE, FALSE, <<>>),      \* {}
     Body(TRUE, FALSE, TRUE, FALSE, <<>>),       \* {"stopIds": "101028"}
     Body(TRUE, FALSE, TRUE, TRUE, <<>>)}        \* {"stopIds": []}

Req(method, path, body) == [method |-> method, path |-> path, body |-> body]

HandlerRequests ==
    {Req("POST", "/", b) : b \in ValidBodies \cup InvalidBodies}
    \cup {Req("GET", "/", BodyOf(<<StrId(StopA)>>)),
          Req("POST", "/stop", BodyOf(<<StrId(StopA)>>)),
          Req("GET", "/", Body(FALSE, FALSE, FALSE, FALSE, <<>>))}

\* feeds the upstream server may hold: its decoder always yields a list
HandlerFeeds == ShortFeeds \cup LongFeeds

-----------------------------------------------------------------------------
(* Responses *)

Failure(status, error) ==
    [status |-> status, error |-> error, results |-> <<>>]

Success(body) == [status |-> 200, error |-> "", results |-> body]

-----------------------------------------------------------------------------
(* Initial states *)

Requests == DOMAIN pc

\* the single-stop processGTFSData's null
Null == [isNull |-> TRUE, stopId |-> <<>>, arrivals |-> <<>>]

\* no direct call of formatArrivalTime is under way
NoCall == [called |-> FALSE, timestamp |-> 0, now |-> 0, unit |-> ""]

Locals(r) ==
    /\ nowTimestamp = [x \in r |-> 0]
    /\ stopArrivals = [x \in r |-> <<>>]
    /\ stopsNeedingMore = [x \in r |-> 0]
    /\ ei = [x \in r |-> 0]
    /\ ui = [x \in r |-> 0]
    /\ routeId = [x \in r |-> <<>>]
    /\ results = [x \in r |-> <<>>]
    /\ responses = [x \in r |-> <<>>]
    /\ processCalls = [x \in r |-> 0]
    /\ singleArrivals = [x \in r |-> <<>>]
    /\ singleResult = [x \in r |-> Null]
    /\ fmtArgs = NoCall
    /\ fmtResult = <<>>

\* one request arrives at the handler
Init ==
    /\ clock = T0
    /\ ticks = 0
    /\ upstream \in HandlerFeeds
    /\ request \in [{1} -> HandlerRequests]
    /\ pc = [x \in {1} |-> "start"]
    /\ stopIds = [x \in {1} |-> <<>>]
    /\ gtfsData = [x \in {1} |-> NoEntityFeed]
    /\ fetches = [x \in {1} |-> 0]
    /\ outcome = [x \in {1} |-> "none"]
    /\ Locals({1})

\* processGTFSData is called with a feed and a list of stop ids
InitProcessWith(feeds, lists) ==
    /\ clock = T0
    /\ ticks = 0
    /\ \E ids \in lists, f \in feeds :
          /\ upstream = f.entity
          /\ request = [x \in {1} |->
                Req("POST", "/", BodyOf([i \in 1..Len(ids) |-> StrId(ids[i])]))]
          /\ stopIds = [x \in {1} |-> ids]
          /\ gtfsData = [x \in {1} |-> f]
    /\ pc = [x \in {1} |-> "process"]
    /\ fetches = [x \in {1} |-> 1]
    /\ outcome = [x \in {1} |-> "ok"]
    /\ Locals({1})

InitProcess == InitProcessWith(ProcessFeeds, RequestedLists)

\* an entity without one of the fields lines 67-72 read
LacksFields(entity) ==
    \/ ~entity.hasTripUpdate
    \/ ~entity.hasTrip
    \/ ~entity.hasRouteId
    \/ ~entity.hasStopTimeUpdate

\* a stop-time-update without the arrival or the time line 83 reads
LacksArrival(stopUpdate) == ~stopUpdate.hasArrival \/ ~stopUpdate.hasTime

\* the feed without those entities and those updates
Clean(feed) ==
    LET KeepEntity(entity) == ~LacksFields(entity)
        KeepUpdate(stopUpdate) == ~LacksArrival(stopUpdate)
        kept == SelectSeq(feed.entity, KeepEntity)
    IN  [hasEntity |-> feed.hasEntity,
         entity    |-> [k \in 1..Len(kept) |->
                           [kept[k] EXCEPT !.stopTimeUpdate = SelectSeq(@, KeepUpdate)]]]

\* processGTFSData is called twice with the same stop ids: first with a
\* feed, then with the same feed or with that feed cleaned
InitRuns ==
    /\ clock = T0
    /\ ticks = 0
    /\ \E ids \in {<<StopA>>, <<StopA, StopB>>, <<StopA, StopA>>},
          f \in ProcessFeeds :
          /\ upstream = f.entity
          /\ request = [x \in {1, 2} |->
                Req("POST", "/", BodyOf([i \in 1..Len(ids) |-> StrId(ids[i])]))]
          /\ stopIds = [x \in {1, 2} |-> ids]
          /\ \E second \in {f, Clean(f)} :
                gtfsData = [x \in {1, 2} |-> IF x = 1 THEN f ELSE second]
    /\ pc = [x \in {1, 2} |-> "process"]
    /\ fetches = [x \in {1, 2} |-> 1]
    /\ outcome = [x \in {1, 2} |-> "ok"]
    /\ Locals({1, 2})

-----------------------------------------------------------------------------
(* The environment: time passes *)

Tick ==
    /\ ticks < MaxTicks
    /\ clock' = clock + 30
    /\ ticks' = ticks + 1
    /\ UNCHANGED <<upstream, request, pc, stopIds, gtfsData, nowTimestamp,
                   stopArrivals, stopsNeedingMore, ei, ui, routeId, results,
                   responses, fetches, outcome, processCalls, singleArrivals,
                   singleResult, fmtArgs, fmtResult>>

-----------------------------------------------------------------------------
(* processGTFSData *)

\* what neither processGTFSData nor the handler of worker.js writes
env == <<clock, ticks, upstream, request, singleArrivals, singleResult,
         fmtArgs, fmtResult>>

Goto(self, label) == pc' = [pc EXCEPT ![self] = label]

\* (mutant) now and the buffers are of the module, not of the call
ProcessStartSharedState(self) ==
    /\ pc[self] = "process"
    /\ nowTimestamp' = [r \in Requests |-> clock]
    /\ stopArrivals' = [r \in Requests |-> SeedArrivals(<<>>, stopIds[self])]
    /\ processCalls' = [processCalls EXCEPT ![self] = @ + 1]
    /\ IF ~gtfsData[self].hasEntity
       THEN /\ Goto(self, "format")
            /\ UNCHANGED <<stopsNeedingMore, ei>>
       ELSE /\ stopsNeedingMore' = [stopsNeedingMore EXCEPT ![self] = Len(stopIds[self])]
            /\ ei' = [ei EXCEPT ![self] = 1]
            /\ Goto(self, "entity")
    /\ UNCHANGED <<env, stopIds, gtfsData, ui, routeId, results, responses,
                   fetches, outcome>>

\* (mutant) the buffers outlive a call: a later call starts from the
\* buffers the call before it left
ProcessStartReusesBuffers(self) ==
    /\ pc[self] = "process"
    /\ nowTimestamp' = [nowTimestamp EXCEPT ![self] = clock]
    /\ stopArrivals' = [stopArrivals EXCEPT ![self] =
                           IF self - 1 \in DOMAIN stopArrivals
                           THEN stopArrivals[self - 1]
                           ELSE SeedArrivals(<<>>, stopIds[self])]
    /\ processCalls' = [processCalls EXCEPT ![self] = @ + 1]
    /\ IF ~gtfsData[self].hasEntity
       THEN /\ Goto(self, "format")
            /\ UNCHANGED <<stopsNeedingMore, ei>>
       ELSE /\ stopsNeedingMore' = [stopsNeedingMore EXCEPT ![self] = Len(stopIds[self])]
            /\ ei' = [ei EXCEPT ![self] = 1]
            /\ Goto(self, "entity")
    /\ UNCHANGED <<env, stopIds, gtfsData, ui, routeId, results, responses,
                   fetches, outcome>>

\* lines 52-64: now is read, the buffers are seeded, the counter is set
ProcessStart(self) ==
    /\ pc[self] = "process"
    /\ nowTimestamp' = [nowTimestamp EXCEPT ![self] = clock]
    /\ stopArrivals' = [stopArrivals EXCEPT ![self] = SeedArrivals(<<>>, stopIds[self])]
    /\ processCalls' = [processCalls EXCEPT ![self] = @ + 1]
    /\ IF ~gtfsData[self].hasEntity
       THEN /\ Goto(self, "format")
            /\ UNCHANGED <<stopsNeedingMore, ei>>
       ELSE /\ stopsNeedingMore' = [stopsNeedingMore EXCEPT ![self] = Len(stopIds[self])]
            /\ ei' = [ei EXCEPT ![self] = 1]
            /\ Goto(self, "entity")
    /\ UNCHANGED <<env, stopIds, gtfsData, ui, routeId, results, responses,
                   fetches, outcome>>

\* lines 66-75: the outer loop takes the next entity, or ends
EnterEntity(self) ==
    /\ pc[self] = "entity"
    /\ LET entities == gtfsData[self].entity
       IN  IF ei[self] > Len(entities)
           THEN /\ Goto(self, "format")
                /\ UNCHANGED <<ei, ui, routeId>>
           ELSE LET entity == entities[ei[self]]
                IN  IF \/ ~entity.hasTripUpdate
                       \/ ~HasRouteId(entity)
                       \/ ~entity.hasStopTimeUpdate
                    THEN /\ ei' = [ei EXCEPT ![self] = @ + 1]
                         /\ UNCHANGED <<pc, ui, routeId>>
                    ELSE /\ routeId' = [routeId EXCEPT ![self] = SplitFirst(entity.routeId)]
                         /\ ui' = [ui EXCEPT ![self] = 1]
                         /\ Goto(self, IF entity.stopTimeUpdate = <<>>
                                       THEN "leave" ELSE "update")
                         /\ UNCHANGED ei
    /\ UNCHANGED <<env, stopIds, gtfsData, nowTimestamp, stopArrivals,
                   stopsNeedingMore, results, responses, fetches, outcome,
                   processCalls>>

\* the inner loop goes on to the next update, or ends
NextUpdate(self, updates) ==
    IF ui[self] < Len(updates)
    THEN /\ ui' = [ui EXCEPT ![self] = @ + 1]
         /\ UNCHANGED pc
    ELSE /\ Goto(self, "leave")
         /\ UNCHANGED ui

\* lines 78-101: one stop-time-update is examined
ExamineUpdate(self) ==
    /\ pc[self] = "update"
    /\ LET updates    == gtfsData[self].entity[ei[self]].stopTimeUpdate
           stopUpdate == updates[ui[self]]
           map        == stopArrivals[self]
       IN  IF Admits(map, stopUpdate, nowTimestamp[self])
           THEN LET arrivals == Append(MapGet(map, stopUpdate.stopId),
                                       Candidate(routeId[self], stopUpdate))
                IN  /\ stopArrivals' = [stopArrivals EXCEPT ![self] =
                                           MapSet(map, stopUpdate.stopId, arrivals)]
                    /\ IF HasEnough(arrivals)
                       THEN /\ stopsNeedingMore' =
                                   [stopsNeedingMore EXCEPT ![self] = @ - 1]
                            /\ IF stopsNeedingMore[self] - 1 = 0
                               THEN /\ Goto(self, "leave")
                                    /\ UNCHANGED ui
                               ELSE NextUpdate(self, updates)
                       ELSE /\ NextUpdate(self, updates)
                            /\ UNCHANGED stopsNeedingMore
           ELSE /\ NextUpdate(self, updates)
                /\ UNCHANGED <<stopArrivals, stopsNeedingMore>>
    /\ UNCHANGED <<env, stopIds, gtfsData, nowTimestamp, ei, routeId, results,
                   responses, fetches, outcome, processCalls>>

\* lines 104-106: after a trip's updates the outer loop breaks or goes on
LeaveEntity(self) ==
    /\ pc[self] = "leave"
    /\ IF stopsNeedingMore[self] = 0
       THEN /\ Goto(self, "format")
            /\ UNCHANGED ei
       ELSE /\ ei' = [ei EXCEPT ![self] = @ + 1]
            /\ Goto(self, "entity")
    /\ UNCHANGED <<env, stopIds, gtfsData, nowTimestamp, stopArrivals,
                   stopsNeedingMore, ui, routeId, results, responses, fetches,
                   outcome, processCalls>>

\* lines 60, 108 and 117-138: formatResults, and processGTFSData returns
FormatResults(self) ==
    /\ pc[self] = "format"
    /\ results' = [results EXCEPT ![self] =
                      formatResults(stopArrivals[self], nowTimestamp[self])]
    /\ stopArrivals' = [stopArrivals EXCEPT ![self] = SortedInPlace(@)]
    /\ Goto(self, "return")
    /\ UNCHANGED <<env, stopIds, gtfsData, nowTimestamp, stopsNeedingMore, ei,
                   ui, routeId, responses, fetches, outcome, processCalls>>

-----------------------------------------------------------------------------
(* The fetch handler *)

Return(self, response) ==
    /\ responses' = [responses EXCEPT ![self] = Append(@, response)]
    /\ Goto(self, "done")

\* lines 143-160: method and path
CheckRequest(self) ==
    /\ pc[self] = "start"
    /\ IF request[self].method # "POST" \/ request[self].path # "/"
       THEN Return(self, Failure(400, "Invalid request"))
       ELSE /\ Goto(self, "json")
            /\ UNCHANGED responses
    /\ UNCHANGED <<env, stopIds, gtfsData, nowTimestamp, stopArrivals,
                   stopsNeedingMore, ei, ui, routeId, results, fetches, outcome,
                   processCalls>>

\* !body.stopIds || !Array.isArray(body.stopIds) || body.stopIds.length === 0
InvalidStopIds(body) ==
    ~body.hasStopIds \/ ~body.isArray \/ Len(body.items) = 0

\* lines 163-200: request.json() settles, stopIds is validated and converted,
\* and the upstream fetch is issued; reading a property of null throws
ParseBody(self) ==
    /\ pc[self] = "json"
    /\ LET body == request[self].body
       IN  IF ~body.parses
           THEN /\ Return(self, Failure(400, "Invalid JSON"))
                /\ UNCHANGED <<stopIds, fetches>>
           ELSE IF body.isNull
           THEN /\ Return(self, Failure(500, "Internal server error"))
                /\ UNCHANGED <<stopIds, fetches>>
           ELSE IF InvalidStopIds(body)
           THEN /\ Return(self, Failure(400, "Invalid stopIds"))
                /\ UNCHANGED <<stopIds, fetches>>
           ELSE /\ stopIds' = [stopIds EXCEPT ![self] =
                                  [i \in 1..Len(body.items) |-> String(body.items[i])]]
                /\ fetches' = [fetches EXCEPT ![self] = @ + 1]
                /\ Goto(self, "fetch")
                /\ UNCHANGED responses
    /\ UNCHANGED <<env, gtfsData, nowTimestamp, stopArrivals, stopsNeedingMore,
                   ei, ui, routeId, results, outcome, processCalls>>

\* (mutant) response.ok is not looked at
UpstreamSettlesUnchecked(self) ==
    /\ pc[self] = "fetch"
    /\ \E how \in {"rejected", "not_ok", "ok"} :
          /\ outcome' = [outcome EXCEPT ![self] = how]
          /\ IF how = "rejected"
             THEN Return(self, Failure(500, "Internal server error"))
             ELSE /\ Goto(self, "arrayBuffer")
                  /\ UNCHANGED responses
    /\ UNCHANGED <<env, stopIds, gtfsData, nowTimestamp, stopArrivals,
                   stopsNeedingMore, ei, ui, routeId, results, fetches,
                   processCalls>>

\* lines 200-210 and 233-242: the upstream fetch settles
UpstreamSettles(self) ==
    /\ pc[self] = "fetch"
    /\ \E how \in {"rejected", "not_ok", "ok"} :
          /\ outcome' = [outcome EXCEPT ![self] = how]
          /\ IF how = "rejected"
             THEN Return(self, Failure(500, "Internal server error"))
             ELSE IF how = "not_ok"
             THEN Return(self, Failure(502, "Failed to fetch transit data"))
             ELSE /\ Goto(self, "arrayBuffer")
                  /\ UNCHANGED responses
    /\ UNCHANGED <<env, stopIds, gtfsData, nowTimestamp, stopArrivals,
                   stopsNeedingMore, ei, ui, routeId, results, fetches,
                   processCalls>>

\* lines 213-220: the body is read and decoded, or either throws
DecodeFeed(self) ==
    /\ pc[self] = "arrayBuffer"
    /\ \E decodes \in BOOLEAN :
          IF decodes
          THEN /\ gtfsData' = [gtfsData EXCEPT ![self] = Feed(upstream)]
               /\ Goto(self, "process")
               /\ UNCHANGED <<responses, outcome>>
          ELSE /\ outcome' = [outcome EXCEPT ![self] = "decode_throws"]
               /\ Return(self, Failure(500, "Internal server error"))
               /\ UNCHANGED gtfsData
    /\ UNCHANGED <<env, stopIds, nowTimestamp, stopArrivals, stopsNeedingMore,
                   ei, ui, routeId, results, fetches, processCalls>>

\* lines 220-231: the results are returned
Respond(self) ==
    /\ pc[self] = "return"
    /\ Return(self, Success(results[self]))
    /\ UNCHANGED <<env, stopIds, gtfsData, nowTimestamp, stopArrivals,
                   stopsNeedingMore, ei, ui, routeId, results, fetches, outcome,
                   processCalls>>

-----------------------------------------------------------------------------
(* The single-stop variant's processGTFSData.  Its feed is the JSON form of *)
(* the same records: trip_update, route_id, stop_time_update, stop_id, and  *)
(* arrival.timeSpecified / delaySpecified for hasTime / hasDelay.  The      *)
(* stop-name lookup is left out.                                            *)

\* the three `return`s of the inner callback all passed
SingleAdmits(stopUpdate, requestedStopId, now) ==
    /\ stopUpdate.stopId = requestedStopId
    /\ stopUpdate.hasArrival /\ stopUpdate.hasTime
    /\ ~NotFuture(stopUpdate.time, now)

\* the object pushed: it is formatted at once and keeps its timestamp to sort by
SingleCandidate(route, stopUpdate, now) ==
    [routeId          |-> route,
     arriving         |-> SingleFormatArrivalTime(stopUpdate.time, now),
     arrivalTimestamp |-> stopUpdate.time,
     deviation        |-> IF stopUpdate.hasDelay THEN stopUpdate.delay ELSE 0]

\* tripUpdate.stop_time_update.forEach(...): what one trip adds to arrivals
RECURSIVE SingleTrip(_, _, _, _)
SingleTrip(updates, route, requestedStopId, now) ==
    IF updates = <<>> THEN <<>>
    ELSE (IF SingleAdmits(Head(updates), requestedStopId, now)
          THEN <<SingleCandidate(route, Head(updates), now)>> ELSE <<>>)
         \o SingleTrip(Tail(updates), route, requestedStopId, now)

\* delete arrival.arrivalTimestamp
WithoutTimestamp(a) ==
    [routeId |-> a.routeId, arriving |-> a.arriving, deviation |-> a.deviation]

singleKeeps ==
    <<clock, ticks, upstream, request, stopIds, gtfsData, stopArrivals,
      stopsNeedingMore, ui, routeId, results, responses, fetches, outcome,
      processCalls, fmtArgs, fmtResult>>

\* lines 52-60: now is read; a feed with no entity list gives null
SingleStart(self) ==
    /\ pc[self] = "single_process"
    /\ nowTimestamp' = [nowTimestamp EXCEPT ![self] = clock]
    /\ singleArrivals' = [singleArrivals EXCEPT ![self] = <<>>]
    /\ IF ~gtfsData[self].hasEntity
       THEN /\ singleResult' = [singleResult EXCEPT ![self] = Null]
            /\ Goto(self, "single_done")
            /\ UNCHANGED ei
       ELSE /\ ei' = [ei EXCEPT ![self] = 1]
            /\ Goto(self, "single_entity")
            /\ UNCHANGED singleResult
    /\ UNCHANGED singleKeeps

\* lines 62-95: the callback of one entity, or the end of the list
SingleEntity(self) ==
    /\ pc[self] = "single_entity"
    /\ LET entities == gtfsData[self].entity
       IN  IF ei[self] > Len(entities)
           THEN /\ Goto(self, "single_rank")
                /\ UNCHANGED <<ei, singleArrivals>>
           ELSE LET entity == entities[ei[self]]
                IN  /\ ei' = [ei EXCEPT ![self] = @ + 1]
                    /\ UNCHANGED pc
                    /\ IF \/ ~entity.hasTripUpdate
                          \/ ~HasRouteId(entity)
                          \/ ~entity.hasStopTimeUpdate
                       THEN UNCHANGED singleArrivals
                       ELSE singleArrivals' = [singleArrivals EXCEPT ![self] =
                               @ \o SingleTrip(entity.stopTimeUpdate,
                                               SplitFirst(entity.routeId),
                                               stopIds[self][1],
                                               nowTimestamp[self])]
    /\ UNCHANGED <<nowTimestamp, singleResult>>
    /\ UNCHANGED singleKeeps

\* lines 97-103: null when nothing was found, else the array is sorted
SingleRank(self) ==
    /\ pc[self] = "single_rank"
    /\ IF singleArrivals[self] = <<>>
       THEN /\ singleResult' = [singleResult EXCEPT ![self] = Null]
            /\ Goto(self, "single_done")
            /\ UNCHANGED singleArrivals
       ELSE /\ singleArrivals' = [singleArrivals EXCEPT ![self] = SortArrivals(@)]
            /\ Goto(self, "single_limit")
            /\ UNCHANGED singleResult
    /\ UNCHANGED <<nowTimestamp, ei>>
    /\ UNCHANGED singleKeeps

\* lines 105-113: the first MAX_ARRIVALS lose their timestamp and are returned
SingleLimit(self) ==
    /\ pc[self] = "single_limit"
    /\ LET all     == singleArrivals[self]
           limited == Slice(all)
           bare    == [i \in 1..Len(limited) |-> WithoutTimestamp(limited[i])]
       IN  /\ singleArrivals' = [singleArrivals EXCEPT ![self] =
                  [i \in 1..Len(all) |-> IF i <= Len(bare) THEN bare[i] ELSE all[i]]]
           /\ singleResult' = [singleResult EXCEPT ![self] =
                  [isNull |-> FALSE, stopId |-> stopIds[self][1], arrivals |-> bare]]
    /\ Goto(self, "single_done")
    /\ UNCHANGED <<nowTimestamp, ei>>
    /\ UNCHANGED singleKeeps

\* the single-stop processGTFSData is called with a feed and one stop id
InitSingle ==
    /\ clock = T0
    /\ ticks = 0
    /\ \E id \in {StopA, StopB}, f \in ProcessFeeds :
          /\ upstream = f.entity
          /\ stopIds = [x \in {1} |-> <<id>>]
          /\ gtfsData = [x \in {1} |-> f]
    /\ request = [x \in {1} |-> Req("GET", "/stop", Body(FALSE, FALSE, FALSE, FALSE, <<>>))]
    /\ pc = [x \in {1} |-> "single_process"]
    /\ fetches = [x \in {1} |-> 1]
    /\ outcome = [x \in {1} |-> "ok"]
    /\ Locals({1})

-----------------------------------------------------------------------------
(* formatArrivalTime called directly, and route ids of every shape *)

\* seconds from now to the arrival
Leads ==
    {-61, -60, -1, 0, 1, 59, 60, 61, 119, 120, 3539, 3540, 3599, 3600, 3601,
     5400, 43200}

FormatCalls ==
    {[called |-> FALSE, timestamp |-> now + lead, now |-> now, unit |-> unit] :
        now \in {T0, T0 + 30, T0 + 1800}, lead \in Leads, unit \in {"min", "m"}}

InitFormat ==
    /\ clock = T0
    /\ ticks = 0
    /\ upstream = <<>>
    /\ request = <<>>
    /\ pc = <<>>
    /\ stopIds = <<>>
    /\ gtfsData = <<>>
    /\ fetches = <<>>
    /\ outcome = <<>>
    /\ nowTimestamp = <<>>
    /\ stopArrivals = <<>>
    /\ stopsNeedingMore = <<>>
    /\ ei = <<>>
    /\ ui = <<>>
    /\ routeId = <<>>
    /\ results = <<>>
    /\ responses = <<>>
    /\ processCalls = <<>>
    /\ singleArrivals = <<>>
    /\ singleResult = <<>>
    /\ fmtArgs \in FormatCalls
    /\ fmtResult = <<>>

FormatCall ==
    /\ ~fmtArgs.called
    /\ fmtArgs' = [fmtArgs EXCEPT !.called = TRUE]
    /\ fmtResult' = IF fmtArgs.unit = "min"
                    THEN formatArrivalTime(fmtArgs.timestamp, fmtArgs.now)
                    ELSE SingleFormatArrivalTime(fmtArgs.timestamp, fmtArgs.now)
    /\ UNCHANGED <<clock, ticks, upstream, request, pc, stopIds, gtfsData,
                   nowTimestamp, stopArrivals, stopsNeedingMore, ei, ui, routeId,
                   results, responses, fetches, outcome, processCalls,
                   singleArrivals, singleResult>>

RawRoutes == SeqsUpTo({"2", "8", "-", "V"}, MaxRouteLen)

\* one trip of the raw route id, arriving at StopA in 150 s
RouteFeeds ==
    {Feed(<<Trip(raw, <<Upd(StopA, T0 + 150, FALSE, 0)>>)>>) : raw \in RawRoutes}

InitRoute == InitProcessWith(RouteFeeds, {<<StopA>>})

-----------------------------------------------------------------------------
(* Specifications *)

Next ==
    \/ \E self \in Requests : CheckRequest(self)
    \/ \E self \in Requests : ParseBody(self)
    \/ \E self \in Requests : UpstreamSettles(self)
    \/ \E self \in Requests : DecodeFeed(self)
    \/ \E self \in Requests : ProcessStart(self)
    \/ \E self \in Requests : EnterEntity(self)
    \/ \E self \in Requests : ExamineUpdate(self)
    \/ \E self \in Requests : LeaveEntity(self)
    \/ \E self \in Requests : FormatResults(self)
    \/ \E self \in Requests : Respond(self)
    \/ Tick

Spec == Init /\ [][Next]_vars

NextProcess ==
    \/ \E self \in Requests : ProcessStart(self)
    \/ \E self \in Requests : EnterEntity(self)
    \/ \E self \in Requests : ExamineUpdate(self)
    \/ \E self \in Requests : LeaveEntity(self)
    \/ \E self \in Requests : FormatResults(self)
    \/ Tick

SpecProcess == InitProcess /\ [][NextProcess]_vars

SpecRoute == InitRoute /\ [][NextProcess]_vars

\* either variant's processGTFSData, on the same feeds
InitVariants == InitProcess \/ InitSingle

NextVariants ==
    \/ \E self \in Requests : ProcessStart(self)
    \/ \E self \in Requests : EnterEntity(self)
    \/ \E self \in Requests : ExamineUpdate(self)
    \/ \E self \in Requests : LeaveEntity(self)
    \/ \E self \in Requests : FormatResults(self)
    \/ \E self \in Requests : SingleStart(self)
    \/ \E self \in Requests : SingleEntity(self)
    \/ \E self \in Requests : SingleRank(self)
    \/ \E self \in Requests : SingleLimit(self)
    \/ Tick

SpecVariants == InitVariants /\ [][NextVariants]_vars

\* the feeds and requests of two requests handled at once
ConcurrentFeeds ==
    {<<>>, <<TripScenario>>, <<TripSkips, TripNoTrip>>,
     RunOf(MAX_ARRIVALS * 3, TRUE) \o <<TripMixed>>}

ConcurrentRequests ==
    {Req("POST", "/", BodyOf(<<StrId(StopA)>>)),
     Req("POST", "/", BodyOf(<<NumId(12), StrId(StopA)>>)),
     Req("POST", "/", BodyOf(<<StrId(StopA), NumId(7)>>)),
     Req("POST", "/", Body(TRUE, TRUE, FALSE, FALSE, <<>>)),
     Req("GET", "/", BodyOf(<<StrId(StopA)>>))}

\* two requests arrive at the handler
InitConcurrent ==
    /\ clock = T0
    /\ ticks = 0
    /\ upstream \in ConcurrentFeeds
    /\ request \in [{1, 2} -> ConcurrentRequests]
    /\ pc = [x \in {1, 2} |-> "start"]
    /\ stopIds = [x \in {1, 2} |-> <<>>]
    /\ gtfsData = [x \in {1, 2} |-> NoEntityFeed]
    /\ fetches = [x \in {1, 2} |-> 0]
    /\ outcome = [x \in {1, 2} |-> "none"]
    /\ Locals({1, 2})

\* from the resumption after `await response.arrayBuffer()` to the return
\* the handler does not suspend
Synchronous == {"process", "entity", "update", "leave", "format", "return"}

\* the event loop runs one continuation to its next await or return: a
\* request steps only while no other is between two suspension points
Runs(self) ==
    \A other \in Requests \ {self} : pc[other] \notin Synchronous

NextConcurrent ==
    \/ \E self \in Requests : Runs(self) /\ CheckRequest(self)
    \/ \E self \in Requests : Runs(self) /\ ParseBody(self)
    \/ \E self \in Requests : Runs(self) /\ UpstreamSettles(self)
    \/ \E self \in Requests : Runs(self) /\ DecodeFeed(self)
    \/ \E self \in Requests : Runs(self) /\ ProcessStart(self)
    \/ \E self \in Requests : Runs(self) /\ EnterEntity(self)
    \/ \E self \in Requests : Runs(self) /\ ExamineUpdate(self)
    \/ \E self \in Requests : Runs(self) /\ LeaveEntity(self)
    \/ \E self \in Requests : Runs(self) /\ FormatResults(self)
    \/ \E self \in Requests : Runs(self) /\ Respond(self)
    \/ Tick

SpecConcurrent == InitConcurrent /\ [][NextConcurrent]_vars

\* processGTFSData is synchronous: a call begins when those before it returned
Turn(self) == \A other \in Requests : other < self => pc[other] = "return"

NextRuns ==
    \/ \E self \in Requests : Turn(self) /\ ProcessStart(self)
    \/ \E self \in Requests : Turn(self) /\ EnterEntity(self)
    \/ \E self \in Requests : Turn(self) /\ ExamineUpdate(self)
    \/ \E self \in Requests : Turn(self) /\ LeaveEntity(self)
    \/ \E self \in Requests : Turn(self) /\ FormatResults(self)
    \/ Tick

SpecRuns == InitRuns /\ [][NextRuns]_vars

NextFormat == FormatCall

SpecFormat == InitFormat /\ [][NextFormat]_vars

-----------------------------------------------------------------------------
(* What the properties below speak of *)

\* the ids of a list in the order they first occur
RECURSIVE FirstOccurrences(_)
FirstOccurrences(ids) ==
    IF ids = <<>> THEN <<>>
    ELSE LET front == FirstOccurrences(SubSeq(ids, 1, Len(ids) - 1))
             last  == ids[Len(ids)]
         IN  IF \E i \in 1..Len(front) : front[i] = last THEN front
             ELSE Append(front, last)

Keys(map) == [i \in 1..Len(map) |-> map[i].stopId]

IsPrefix(s, t) == Len(s) <= Len(t) /\ SubSeq(t, 1, Len(s)) = s

\* the scan of processGTFSData is under way, or over and not yet formatted
Scanning(self) == pc[self] \in {"entity", "update", "leave", "format"}

\* every place <<e, u>> of a stop-time-update in a feed, in feed order
RECURSIVE PlacesFrom(_, _)
PlacesFrom(entities, e) ==
    IF e > Len(entities) THEN <<>>
    ELSE [u \in 1..Len(entities[e].stopTimeUpdate) |-> <<e, u>>]
         \o PlacesFrom(entities, e + 1)

Places(entities) == PlacesFrom(entities, 1)

UpdateAt(entities, place) == entities[place[1]].stopTimeUpdate[place[2]]

\* (a)-(c) of the relevance filter for the buffer of `stop`
Relevant(stopUpdate, stop, now) ==
    /\ stopUpdate.stopId = stop
    /\ stopUpdate.hasArrival /\ stopUpdate.hasTime
    /\ stopUpdate.time > now

\* the entity is a trip update with a route id and a list of updates
WellFormed(entity) ==
    /\ entity.hasTripUpdate
    /\ entity.hasTrip /\ entity.hasRouteId /\ entity.routeId # <<>>
    /\ entity.hasStopTimeUpdate

\* the candidate the documentation describes for an update of a trip
Expected(entity, stopUpdate) ==
    [routeId          |-> SubSeq(entity.routeId, 1,
                             Cardinality({i \in 1..Len(entity.routeId) :
                                \A j \in 1..i : entity.routeId[j] # "-"})),
     arrivalTimestamp |-> stopUpdate.time,
     deviation        |-> IF stopUpdate.hasDelay THEN stopUpdate.delay ELSE 0]

\* the scan has examined the update at place <<e, u>>
Examined(self, e, u) ==
    LET upTo == e < ei[self] \/ (e = ei[self] /\ u <= ui[self])
    IN  CASE pc[self] = "entity" -> e < ei[self]
          [] pc[self] = "update" -> e < ei[self] \/ (e = ei[self] /\ u < ui[self])
          [] pc[self] = "leave"  -> upTo
          [] OTHER -> ei[self] > Len(gtfsData[self].entity) \/ upTo

\* the candidates of the relevant updates of well-formed trips among `places`
CandidatesAt(entities, places, stop, now) ==
    LET Keep(place) == /\ WellFormed(entities[place[1]])
                       /\ Relevant(UpdateAt(entities, place), stop, now)
        kept == SelectSeq(places, Keep)
    IN  [k \in 1..Len(kept) |->
            Expected(entities[kept[k][1]], UpdateAt(entities, kept[k]))]

-----------------------------------------------------------------------------
(* C1 *)

C1_State ==
    \A self \in Requests :
       /\ (Scanning(self) \/ pc[self] = "return")
             => Keys(stopArrivals[self]) = FirstOccurrences(stopIds[self])
       /\ pc[self] = "return"
             => /\ Keys(results[self]) = FirstOccurrences(stopIds[self])
                /\ \A i \in 1..Len(results[self]) :
                      LET entities == gtfsData[self].entity
                      IN  (\A k \in 1..Len(Places(entities)) :
                              ~Relevant(UpdateAt(entities, Places(entities)[k]),
                                        results[self][i].stopId,
                                        nowTimestamp[self]))
                          => results[self][i].arrivals = <<>>

C1_Step ==
    \A self \in Requests :
       (Scanning(self) /\ Scanning(self)')
          => /\ Keys(stopArrivals'[self]) = Keys(stopArrivals[self])
             /\ \A i \in 1..Len(stopArrivals[self]) :
                   IsPrefix(stopArrivals[self][i].arrivals,
                            stopArrivals'[self][i].arrivals)

\* C1: the result has exactly one entry per requested stop id, in the order
\* the ids first occur in the request, with an empty arrivals list for a stop
\* no future arrival matches; the buffers' keys are those ids from before the
\* scan, and during the scan no key is added, removed or emptied again.
C1_OneEntryPerStop == [](C1_State) /\ [][C1_Step]_vars

\* a second stop has arrivals and the first, also requested, has none
C1_Witness ==
    /\ pc[1] = "return"
    /\ Len(stopIds[1]) = 2
    /\ Len(results[1]) = 2
    /\ results[1][1].arrivals = <<>>
    /\ results[1][2].arrivals # <<>>

-----------------------------------------------------------------------------
(* C2 *)

NonDecreasing(seq, n) ==
    \A k \in 1..(n - 1) : seq[k].arrivalTimestamp <= seq[k + 1].arrivalTimestamp

C2_State ==
    \A self \in Requests :
       /\ pc[self] = "return"
             => \A i \in 1..Len(results[self]) :
                   LET out    == results[self][i].arrivals
                       buffer == stopArrivals[self][i].arrivals
                   IN  /\ Len(out) <= 8
                       /\ Len(out) <= Len(buffer)
                       /\ NonDecreasing(buffer, Len(out))
                       /\ \A k \in 1..Len(out) :
                             /\ out[k].routeId = buffer[k].routeId
                             /\ out[k].deviation = buffer[k].deviation
                             /\ out[k].arriving =
                                   formatArrivalTime(buffer[k].arrivalTimestamp,
                                                     nowTimestamp[self])
       /\ pc[self] = "single_limit"
             => NonDecreasing(singleArrivals[self], Len(singleArrivals[self]))
       /\ pc[self] = "single_done"
             => Len(singleResult[self].arrivals) <= 8

C2_Step ==
    \A self \in Requests :
       (pc[self] = "single_limit" /\ pc'[self] = "single_done")
          => LET out == singleResult'[self].arrivals
             IN  /\ Len(out) <= Len(singleArrivals[self])
                 /\ \A k \in 1..Len(out) :
                       /\ out[k].routeId = singleArrivals[self][k].routeId
                       /\ out[k].deviation = singleArrivals[self][k].deviation
                       /\ out[k].arriving = singleArrivals[self][k].arriving

\* C2: in both variants a stop's emitted arrivals are at most 8, and they are
\* the leading entries, in order, of a list in non-decreasing order of
\* arrival timestamp.
C2_BoundedAndSorted == [](C2_State) /\ [][C2_Step]_vars

\* eight arrivals emitted out of more, the first earlier than the eighth
C2_Witness ==
    /\ pc[1] = "return"
    /\ \E i \in 1..Len(results[1]) :
          /\ Len(results[1][i].arrivals) = 8
          /\ Len(stopArrivals[1][i].arrivals) > 8
          /\ stopArrivals[1][i].arrivals[1].arrivalTimestamp
                < stopArrivals[1][i].arrivals[8].arrivalTimestamp

-----------------------------------------------------------------------------
(* C3 *)

\* the buffers a scan of the entire feed fills
FullScan(self) ==
    LET keys     == FirstOccurrences(stopIds[self])
        entities == gtfsData[self].entity
    IN  [i \in 1..Len(keys) |->
            [stopId   |-> keys[i],
             arrivals |-> CandidatesAt(entities, Places(entities), keys[i],
                                       nowTimestamp[self])]]

\* C3: the arrivals emitted for each requested stop are those a scan of the
\* entire feed would emit: the early exit never changes the result.
C3_EarlyExitKeepsResult ==
    \A self \in Requests :
       pc[self] = "return"
          => results[self] = formatResults(FullScan(self), nowTimestamp[self])

-----------------------------------------------------------------------------
(* C4 *)

TimesAndDelays(candidates) ==
    [k \in 1..Len(candidates) |->
        <<candidates[k].arrivalTimestamp, candidates[k].deviation>>]

\* the relevant updates among `places`, whatever their trip record
RelevantAt(entities, places, stop, now) ==
    LET Keep(place) == Relevant(UpdateAt(entities, place), stop, now)
        kept == SelectSeq(places, Keep)
    IN  [k \in 1..Len(kept) |->
            LET stopUpdate == UpdateAt(entities, kept[k])
            IN  <<stopUpdate.time,
                  IF stopUpdate.hasDelay THEN stopUpdate.delay ELSE 0>>]

\* C4 as claimed: when the scan is over, a stop's buffer holds one candidate
\* for each update of the feed that is for that stop, carries a time and is
\* in the future, and nothing else decides.
C4_AdmitsIffRelevant ==
    \A self \in Requests :
       pc[self] = "format"
          => \A i \in 1..Len(stopArrivals[self]) :
                LET entities == gtfsData[self].entity
                IN  TimesAndDelays(stopArrivals[self][i].arrivals)
                      = RelevantAt(entities, Places(entities),
                                   stopArrivals[self][i].stopId, nowTimestamp[self])

\* C4 as amended: at every point of the scan a stop's buffer holds, in feed
\* order, one candidate for each update examined so far that is for that
\* stop, carries a time and is in the future; the updates examined are those
\* of trip updates with a route id and an update list, up to an early exit.
C4_AdmitsExaminedRelevant ==
    \A self \in Requests :
       Scanning(self)
          => \A i \in 1..Len(stopArrivals[self]) :
                LET entities == gtfsData[self].entity
                    Seen(place) == Examined(self, place[1], place[2])
                IN  stopArrivals[self][i].arrivals
                      = CandidatesAt(entities, SelectSeq(Places(entities), Seen),
                                     stopArrivals[self][i].stopId,
                                     nowTimestamp[self])

\* a relevant update of a trip with no route id was passed over, and
\* another update was admitted
C4_Witness ==
    /\ pc[1] = "format"
    /\ \E e \in 1..Len(gtfsData[1].entity) :
          LET entity == gtfsData[1].entity[e]
          IN  /\ entity.hasTripUpdate /\ ~entity.hasTrip
              /\ e < ei[1]
              /\ \E u \in 1..Len(entity.stopTimeUpdate) :
                    Relevant(entity.stopTimeUpdate[u], stopArrivals[1][1].stopId,
                             nowTimestamp[1])
    /\ stopArrivals[1][1].arrivals # <<>>

-----------------------------------------------------------------------------
(* C5 *)

\* some update of the feed is for `stop` and carries the time `time`
FromFeed(entities, stop, time) ==
    \E e \in 1..Len(entities) :
       \E u \in 1..Len(entities[e].stopTimeUpdate) :
          LET stopUpdate == entities[e].stopTimeUpdate[u]
          IN  /\ stopUpdate.stopId = stop
              /\ stopUpdate.hasArrival /\ stopUpdate.hasTime
              /\ stopUpdate.time = time

C5_State ==
    \A self \in Requests :
       /\ (Scanning(self) \/ pc[self] = "return")
             => \A i \in 1..Len(stopArrivals[self]) :
                   \A k \in 1..Len(stopArrivals[self][i].arrivals) :
                      LET c == stopArrivals[self][i].arrivals[k]
                      IN  /\ c.arrivalTimestamp > nowTimestamp[self]
                          /\ FromFeed(gtfsData[self].entity,
                                      stopArrivals[self][i].stopId,
                                      c.arrivalTimestamp)
       /\ pc[self] = "return"
             => \A i \in 1..Len(results[self]) :
                   \A k \in 1..Len(results[self][i].arrivals) :
                      results[self][i].arrivals[k].arriving
                         = formatArrivalTime(
                              stopArrivals[self][i].arrivals[k].arrivalTimestamp,
                              nowTimestamp[self])
       /\ pc[self] \in {"single_entity", "single_rank", "single_limit"}
             => \A k \in 1..Len(singleArrivals[self]) :
                   LET c == singleArrivals[self][k]
                   IN  /\ c.arrivalTimestamp > nowTimestamp[self]
                       /\ FromFeed(gtfsData[self].entity, stopIds[self][1],
                                   c.arrivalTimestamp)
                       /\ c.arriving = SingleFormatArrivalTime(c.arrivalTimestamp,
                                                               nowTimestamp[self])

C5_Step ==
    \A self \in Requests :
       pc[self] \notin {"process", "single_process"}
          => nowTimestamp'[self] = nowTimestamp[self]

\* C5: every buffered candidate comes from an update for the buffer's stop
\* with an arrival time strictly after now; now is read once at the start,
\* does not change as the clock goes on, and is the value formatting uses.
C5_StrictlyFutureOnce == [](C5_State) /\ [][C5_Step]_vars

\* the clock has moved on since now was read, an update for a requested stop
\* arrives exactly at now, and the stop has arrivals
C5_Witness ==
    /\ pc[1] = "return"
    /\ clock # nowTimestamp[1]
    /\ \E i \in 1..Len(stopArrivals[1]) :
          /\ FromFeed(gtfsData[1].entity, stopArrivals[1][i].stopId, nowTimestamp[1])
          /\ results[1][i].arrivals # <<>>

-----------------------------------------------------------------------------
(* C6 *)

IsDigit(ch) == \E d \in 1..10 : DigitChars[d] = ch

\* the number a string of digits writes
RECURSIVE DecimalValue(_)
DecimalValue(digits) ==
    IF digits = <<>> THEN 0
    ELSE 10 * DecimalValue(SubSeq(digits, 1, Len(digits) - 1))
         + (CHOOSE d \in 0..9 : DigitChars[d + 1] = digits[Len(digits)])

EndsWith(s, suffix) ==
    Len(s) >= Len(suffix) /\ SubSeq(s, Len(s) - Len(suffix) + 1, Len(s)) = suffix

\* h:mm am|pm with h of one or two digits and no leading zero
IsWallClock(s) ==
    /\ Len(s) \in {7, 8}
    /\ LET h == SubSeq(s, 1, Len(s) - 6)
       IN  /\ \A i \in 1..Len(h) : IsDigit(h[i])
           /\ DecimalValue(h) \in 1..12
           /\ h[1] # "0"
    /\ s[Len(s) - 5] = ":"
    /\ IsDigit(s[Len(s) - 4]) /\ IsDigit(s[Len(s) - 3])
    /\ DecimalValue(SubSeq(s, Len(s) - 4, Len(s) - 3)) \in 0..59
    /\ s[Len(s) - 2] = " "
    /\ SubSeq(s, Len(s) - 1, Len(s)) \in {<<"a", "m">>, <<"p", "m">>}

\* C6: with m = floor((t - now) / 60), the result is "Now" when m < 60 and
\* max(0, m) = 0, the count m in 1..59 with the unit when 1 <= m < 60, and a
\* wall-clock string that is no minute count when m >= 60; it is never
\* "0 min" or "0 m" and never a negative count.
C6_FormatByMinutes ==
    fmtArgs.called
       => LET m     == (fmtArgs.timestamp - fmtArgs.now) \div 60
              unit  == IF fmtArgs.unit = "min" THEN <<" ", "m", "i", "n">>
                       ELSE <<" ", "m">>
              count == SubSeq(fmtResult, 1, Len(fmtResult) - Len(unit))
          IN  /\ (m < 60 /\ m <= 0) => fmtResult = <<"N", "o", "w">>
              /\ (m < 60 /\ m >= 1)
                    => /\ EndsWith(fmtResult, unit)
                       /\ count # <<>>
                       /\ \A i \in 1..Len(count) : IsDigit(count[i])
                       /\ count[1] # "0"
                       /\ DecimalValue(count) = m
              /\ m >= 60
                    => /\ IsWallClock(fmtResult)
                       /\ ~EndsWith(fmtResult, <<"m", "i", "n">>)
                       /\ ~EndsWith(fmtResult, <<" ", "m">>)
              /\ fmtResult \notin {<<"0", " ", "m", "i", "n">>, <<"0", " ", "m">>}
              /\ fmtResult # <<>> /\ fmtResult[1] # "-"

\* an arrival more than a minute in the past is rendered "Now"
C6_Witness ==
    /\ fmtArgs.called
    /\ fmtArgs.timestamp - fmtArgs.now < -60
    /\ fmtResult = <<"N", "o", "w">>

-----------------------------------------------------------------------------
(* C7 *)

C7_State ==
    \A self \in Requests :
       /\ pc[self] \in {"update", "leave"}
             => LET raw   == gtfsData[self].entity[ei[self]].routeId
                    route == routeId[self]
                IN  /\ IsPrefix(route, raw)
                    /\ ~Contains(route, "-")
                    /\ Contains(raw, "-") => raw[Len(route) + 1] = "-"
                    /\ ~Contains(raw, "-") => route = raw
                    /\ SplitFirst(route) = route
       /\ pc[self] = "return"
             => \A i \in 1..Len(results[self]) :
                   \A k \in 1..Len(results[self][i].arrivals) :
                      ~Contains(results[self][i].arrivals[k].routeId, "-")

\* C7: the route id of a trip is the raw id's text before its first '-', or
\* the raw id when it has none; normalising it again changes nothing; no
\* emitted routeId contains '-'.
C7_RouteNormalised == C7_State

\* a raw id with two separators is emitted as the text before the first
C7_Witness ==
    /\ pc[1] = "return"
    /\ gtfsData[1].entity[1].routeId = <<"2", "-", "-">>
    /\ Len(results[1][1].arrivals) = 1
    /\ results[1][1].arrivals[1].routeId = <<"2">>

-----------------------------------------------------------------------------
(* C8 *)

BagOf(seq) ==
    [x \in {seq[k] : k \in 1..Len(seq)} |->
        Cardinality({k \in 1..Len(seq) : seq[k] = x})]

\* what the documentation says is emitted for an update of a trip
ExpectedEmitted(entity, stopUpdate, now) ==
    [routeId   |-> Expected(entity, stopUpdate).routeId,
     arriving  |-> formatArrivalTime(stopUpdate.time, now),
     deviation |-> IF stopUpdate.hasDelay THEN stopUpdate.delay ELSE 0]

\* one for each relevant update of a well-formed trip in the whole feed
AllExpectedEmitted(entities, stop, now) ==
    LET Keep(place) == /\ WellFormed(entities[place[1]])
                       /\ Relevant(UpdateAt(entities, place), stop, now)
        kept == SelectSeq(Places(entities), Keep)
    IN  [k \in 1..Len(kept) |->
            ExpectedEmitted(entities[kept[k][1]], UpdateAt(entities, kept[k]), now)]

\* C8: the arrivals emitted for a stop are, each for a different one, among
\* the admitted updates of that stop, with the route id normalised, the time
\* formatted and the delay (0 when absent) of that same update, and with
\* those three fields only.
C8_FieldsKeptTogether ==
    \A self \in Requests :
       pc[self] = "return"
          => \A i \in 1..Len(results[self]) :
                /\ BagOf(results[self][i].arrivals)
                      \sqsubseteq BagOf(AllExpectedEmitted(gtfsData[self].entity,
                                                           results[self][i].stopId,
                                                           nowTimestamp[self]))
                /\ \A k \in 1..Len(results[self][i].arrivals) :
                      DOMAIN results[self][i].arrivals[k]
                         = {"routeId", "arriving", "deviation"}

\* the documented scenario, beside an arrival that carries a delay
C8_Witness ==
    /\ pc[1] = "return"
    /\ \E i \in 1..Len(results[1]) :
          /\ \E k \in 1..Len(results[1][i].arrivals) :
                results[1][i].arrivals[k]
                   = [routeId |-> <<"2", "8">>,
                      arriving |-> <<"2", " ", "m", "i", "n">>,
                      deviation |-> 0]
          /\ \E k \in 1..Len(results[1][i].arrivals) :
                results[1][i].arrivals[k].deviation # 0

-----------------------------------------------------------------------------
(* C9 *)

\* C9: when the upstream fetch is rejected, answers with a non-success
\* status, or its body cannot be read or decoded, the handler has returned
\* exactly one response, a failure (502 for the status, 500 otherwise) that
\* carries no arrivals, and processGTFSData has not run.
C9_UpstreamFailure ==
    \A self \in Requests :
       outcome[self] \in {"rejected", "not_ok", "decode_throws"}
          => /\ pc[self] = "done"
             /\ Len(responses[self]) = 1
             /\ responses[self][1].status
                   = (IF outcome[self] = "not_ok" THEN 502 ELSE 500)
             /\ responses[self][1].results = <<>>
             /\ processCalls[self] = 0
             /\ results[self] = <<>>

C9_Witness ==
    /\ outcome[1] = "not_ok"
    /\ responses[1] = <<Failure(502, "Failed to fetch transit data")>>
    /\ fetches[1] = 1

-----------------------------------------------------------------------------
(* C10 *)

\* the request passes the method/path check, parses, and has stop ids
Acceptable(req) ==
    /\ req.method = "POST" /\ req.path = "/"
    /\ req.body.parses
    /\ req.body.hasStopIds /\ req.body.isArray /\ req.body.items # <<>>

\* the error the claim gives a request that is not acceptable
ClaimedError(req) ==
    IF req.method # "POST" \/ req.path # "/" THEN "Invalid request"
    ELSE IF ~req.body.parses THEN "Invalid JSON"
    ELSE "Invalid stopIds"

\* C10: the upstream is fetched at most once and only for a request that
\* passed the method/path check, the parse and the stopIds validation; any
\* other request gets status 400 with the error of the check it failed.
C10_ValidatedBeforeFetch ==
    \A self \in Requests :
       /\ fetches[self] <= 1
       /\ fetches[self] = 1 => Acceptable(request[self])
       /\ (pc[self] = "done" /\ ~Acceptable(request[self]))
             => /\ fetches[self] = 0
                /\ Len(responses[self]) = 1
                /\ responses[self][1].status = 400
                /\ responses[self][1].error = ClaimedError(request[self])

-----------------------------------------------------------------------------
(* C11 *)

\* both calls have returned and read the same now
BothReturned ==
    /\ Requests = {1, 2}
    /\ pc[1] = "return" /\ pc[2] = "return"
    /\ nowTimestamp[1] = nowTimestamp[2]

C11_State ==
    (BothReturned /\ gtfsData[2] = Clean(gtfsData[1]))
       => results[2] = results[1]

C11_Step ==
    \A self \in Requests :
       LET entities == gtfsData[self].entity
       IN  /\ (pc[self] = "entity" /\ ei[self] <= Len(entities)
                  /\ LacksFields(entities[ei[self]]))
              => /\ pc'[self] = "entity"
                 /\ stopArrivals'[self] = stopArrivals[self]
                 /\ stopsNeedingMore'[self] = stopsNeedingMore[self]
           /\ (pc[self] = "update"
                  /\ LacksArrival(entities[ei[self]].stopTimeUpdate[ui[self]]))
              => /\ pc'[self] \in {"update", "leave"}
                 /\ stopArrivals'[self] = stopArrivals[self]
                 /\ stopsNeedingMore'[self] = stopsNeedingMore[self]

\* C11: an entity without a tripUpdate, trip, route id or update list, and an
\* update without an arrival or arrival time, is passed over: the scan goes
\* on and no buffer changes; and the result for a feed equals the result for
\* that feed with those records removed.
C11_MalformedSkipped == [](C11_State) /\ [][C11_Step]_vars

\* records were removed, among them a trip without a trip descriptor whose
\* update is a future arrival at a requested stop, and the stop has arrivals
C11_Witness ==
    /\ BothReturned
    /\ gtfsData[2] = Clean(gtfsData[1])
    /\ Len(gtfsData[2].entity) < Len(gtfsData[1].entity)
    /\ \E e \in 1..Len(gtfsData[1].entity) :
          /\ ~gtfsData[1].entity[e].hasTrip
          /\ \E u \in 1..Len(gtfsData[1].entity[e].stopTimeUpdate) :
                Relevant(gtfsData[1].entity[e].stopTimeUpdate[u],
                         results[1][1].stopId, nowTimestamp[1])
    /\ results[1][1].arrivals # <<>>
    /\ \E e \in 1..Len(gtfsData[1].entity) :
          \E u \in 1..Len(gtfsData[1].entity[e].stopTimeUpdate) :
             /\ ~LacksFields(gtfsData[1].entity[e])
             /\ LacksArrival(gtfsData[1].entity[e].stopTimeUpdate[u])

-----------------------------------------------------------------------------
(* C12 *)

C12_State ==
    /\ (BothReturned /\ gtfsData[2] = gtfsData[1]) => results[2] = results[1]
    /\ Requests = {1, 2} => gtfsData[1].entity = upstream

C12_Step ==
    /\ gtfsData' = gtfsData
    /\ stopIds' = stopIds
    /\ upstream' = upstream

\* C12: two calls with the same feed, the same stop ids and the same now
\* return the same result, and no step of a call changes the feed or the
\* list of stop ids it was given.
C12_SameResultTwice == [](C12_State) /\ [][C12_Step]_vars

\* the second call ran on the feed the first had run on, past the early
\* exit, and returned arrivals
C12_Witness ==
    /\ BothReturned
    /\ gtfsData[2] = gtfsData[1]
    /\ ei[2] <= Len(gtfsData[2].entity)
    /\ \E i \in 1..Len(results[2]) : Len(results[2][i].arrivals) = 8
    /\ \A i \in 1..Len(stopArrivals[2]) : Len(stopArrivals[2][i].arrivals) = 24

-----------------------------------------------------------------------------
(* The scan as a whole: where it ends and what it has buffered by then *)

\* how many of the first n places hold a relevant update of a well-formed trip
CountAt(entities, places, n, stop, now) ==
    Cardinality({k \in 1..n :
                    /\ WellFormed(entities[places[k][1]])
                    /\ Relevant(UpdateAt(entities, places[k]), stop, now)})

\* how many distinct requested stops have 24 such updates among the first n
SatisfiedAt(entities, places, n, keys, now) ==
    Cardinality({i \in 1..Len(keys) :
                    CountAt(entities, places, n, keys[i], now) >= MAX_ARRIVALS * 3})

\* the number of places the scan goes through: up to the first at which as
\* many stops are satisfied as ids were requested, or else all of them
ScanEnd(entities, ids, now) ==
    LET places == Places(entities)
        keys   == FirstOccurrences(ids)
        ends   == {n \in 1..Len(places) :
                      SatisfiedAt(entities, places, n, keys, now) = Len(ids)}
    IN  IF ends = {} THEN Len(places)
        ELSE CHOOSE n \in ends : \A m \in ends : n <= m

\* the result of a call of processGTFSData by itself
AloneResults(feed, ids, now) ==
    LET keys   == FirstOccurrences(ids)
        places == SubSeq(Places(feed.entity), 1, ScanEnd(feed.entity, ids, now))
    IN  formatResults([i \in 1..Len(keys) |->
                          [stopId   |-> keys[i],
                           arrivals |-> CandidatesAt(feed.entity, places,
                                                     keys[i], now)]],
                      now)

\* the response to a request handled by itself, given how its upstream fetch
\* went, the feed it decoded and the now it read
AloneResponse(req, how, feed, now) ==
    IF req.method # "POST" \/ req.path # "/"
    THEN Failure(400, "Invalid request")
    ELSE IF ~req.body.parses THEN Failure(400, "Invalid JSON")
    ELSE IF req.body.isNull THEN Failure(500, "Internal server error")
    ELSE IF ~req.body.hasStopIds \/ ~req.body.isArray \/ req.body.items = <<>>
    THEN Failure(400, "Invalid stopIds")
    ELSE IF how \in {"rejected", "decode_throws"}
    THEN Failure(500, "Internal server error")
    ELSE IF how = "not_ok" THEN Failure(502, "Failed to fetch transit data")
    ELSE Success(AloneResults(feed,
                              [i \in 1..Len(req.body.items) |->
                                  String(req.body.items[i])],
                              now))

\* a handler answers as it would by itself
AnswersAsAlone ==
    \A self \in Requests :
       (pc[self] # "done" /\ pc'[self] = "done")
          => responses'[self]
                = <<AloneResponse(request[self], outcome'[self], gtfsData[self],
                                  nowTimestamp[self])>>

-----------------------------------------------------------------------------
(* C13 *)

\* all that a request's handler and its call of processGTFSData hold
Local(r) ==
    <<pc[r], stopIds[r], gtfsData[r], nowTimestamp[r], stopArrivals[r],
      stopsNeedingMore[r], ei[r], ui[r], routeId[r], results[r], responses[r],
      fetches[r], outcome[r], processCalls[r]>>

C13_Step ==
    /\ AnswersAsAlone
    /\ \A r \in Requests :
          /\ pc[r] = "done" => Local(r)' = Local(r)
          /\ nowTimestamp'[r] # nowTimestamp[r]
                => pc[r] = "process" /\ nowTimestamp'[r] = clock
          /\ \A other \in Requests \ {r} :
                Local(r)' # Local(r) => Local(other)' = Local(other)

\* C13: of two requests handled at once, interleaved at their suspension
\* points, each gets the response it would get by itself; a step of one
\* changes nothing the other holds, and each reads its own now.
C13_RequestsIndependent == [][C13_Step]_vars

\* both were answered with arrivals, the second after the first, each with
\* the now it read and for the stops it asked for
C13_Witness ==
    /\ Requests = {1, 2}
    /\ pc[1] = "done" /\ pc[2] = "done"
    /\ responses[1][1].status = 200 /\ responses[2][1].status = 200
    /\ nowTimestamp[1] < nowTimestamp[2]
    /\ Len(responses[1][1].results) = 1
    /\ Len(responses[2][1].results) = 2
    /\ responses[1][1].results[1].arrivals # <<>>
    /\ responses[2][1].results[2].arrivals
          # responses[1][1].results[1].arrivals

-----------------------------------------------------------------------------
(* C14 *)

\* every requested stop's buffer holds at least 24 candidates
AllSatisfied(self) ==
    /\ stopArrivals[self] # <<>>
    /\ \A i \in 1..Len(stopArrivals[self]) :
          Len(stopArrivals[self][i].arrivals) >= MAX_ARRIVALS * 3

\* C14: once every requested stop's buffer holds at least 24 candidates the
\* scan takes up no further update and no further trip record: it is leaving
\* the loops, or has left them.
C14_StopsWhenSatisfied ==
    \A self \in Requests :
       (pc[self] \in {"entity", "update", "leave"} /\ AllSatisfied(self))
          => pc[self] = "leave" /\ stopsNeedingMore[self] = 0

-----------------------------------------------------------------------------
(* C16 *)

\* the buffers that hold at least 24 candidates
Full(map) ==
    {i \in 1..Len(map) : Len(map[i].arrivals) >= MAX_ARRIVALS * 3}

\* the scan of a feed with an entity list, where the counter exists
Counting(self) == Scanning(self) /\ gtfsData[self].hasEntity

C16_State ==
    \A self \in Requests :
       Counting(self)
          => /\ 0 <= stopsNeedingMore[self]
             /\ stopsNeedingMore[self] <= Len(stopIds[self])
             /\ stopsNeedingMore[self]
                   = Len(stopIds[self]) - Cardinality(Full(stopArrivals[self]))

C16_Step ==
    \A self \in Requests :
       (Counting(self) /\ Counting(self)')
          => LET before == stopArrivals[self]
                 after  == stopArrivals'[self]
                 grown  == {i \in 1..Len(before) :
                               Len(after[i].arrivals) # Len(before[i].arrivals)}
             IN  /\ stopsNeedingMore'[self] # stopsNeedingMore[self]
                       => /\ stopsNeedingMore'[self] = stopsNeedingMore[self] - 1
                          /\ \E i \in grown :
                                /\ grown = {i}
                                /\ Len(before[i].arrivals) = MAX_ARRIVALS * 3 - 1
                                /\ Len(after[i].arrivals) = MAX_ARRIVALS * 3
                 /\ (\E i \in grown : Len(before[i].arrivals) >= MAX_ARRIVALS * 3)
                       => stopsNeedingMore'[self] = stopsNeedingMore[self]

\* C16: during the scan the counter is between 0 and the number of ids
\* requested, and is that number less the number of distinct stops whose
\* buffer holds at least 24 candidates; it goes down by one exactly at the
\* append that brings a buffer from 23 to 24, and stays when a buffer grows
\* past 24.
C16_CounterTracksFullBuffers == [](C16_State) /\ [][C16_Step]_vars

\* one of two stops has grown past 24 and the other is still short
C16_Witness ==
    /\ Counting(1)
    /\ Len(stopArrivals[1]) = 2
    /\ \E i \in 1..2 : Len(stopArrivals[1][i].arrivals) > MAX_ARRIVALS * 3
    /\ stopsNeedingMore[1] = 1

-----------------------------------------------------------------------------
(* C15 *)

\* the place of a candidate in the ascending order by arrival time in which
\* candidates with equal times keep the order they have in the feed
Rank(candidates, k) ==
    1 + Cardinality({j \in 1..Len(candidates) :
                        \/ candidates[j].arrivalTimestamp
                              < candidates[k].arrivalTimestamp
                        \/ /\ candidates[j].arrivalTimestamp
                                 = candidates[k].arrivalTimestamp
                           /\ j < k})

StableAscending(candidates) ==
    [r \in 1..Len(candidates) |->
        candidates[CHOOSE k \in 1..Len(candidates) : Rank(candidates, k) = r]]

\* the first 8 of that order, as they are emitted
FirstEight(candidates, now) ==
    LET sorted == StableAscending(candidates)
        n      == IF Len(sorted) < 8 THEN Len(sorted) ELSE 8
    IN  [k \in 1..n |->
            [routeId   |-> sorted[k].routeId,
             arriving  |-> formatArrivalTime(sorted[k].arrivalTimestamp, now),
             deviation |-> sorted[k].deviation]]

\* every update of the feed that is for the stop, carries a time and is in
\* the future, whatever its trip record
AdmissibleAnywhere(entities, stop, now) ==
    LET Keep(place) == Relevant(UpdateAt(entities, place), stop, now)
        kept == SelectSeq(Places(entities), Keep)
    IN  [k \in 1..Len(kept) |->
            Expected(entities[kept[k][1]], UpdateAt(entities, kept[k]))]

\* C15 as claimed: when some requested stop has fewer than 24 admissible
\* updates in the whole feed, every update of the feed is examined and each
\* stop's emitted arrivals are the first 8 of the stable ascending order of
\* all its admissible updates.
C15_FullScanExactFirstEight ==
    \A self \in Requests :
       LET entities == gtfsData[self].entity
           now      == nowTimestamp[self]
       IN  (/\ pc[self] = "return"
            /\ gtfsData[self].hasEntity
            /\ \E i \in 1..Len(results[self]) :
                  Len(AdmissibleAnywhere(entities, results[self][i].stopId, now))
                     < MAX_ARRIVALS * 3)
           => /\ \A e \in 1..Len(entities) :
                    \A u \in 1..Len(entities[e].stopTimeUpdate) :
                       Examined(self, e, u) /\ WellFormed(entities[e])
              /\ \A i \in 1..Len(results[self]) :
                    results[self][i].arrivals
                       = FirstEight(AdmissibleAnywhere(entities,
                                                       results[self][i].stopId, now),
                                    now)

\* C15 as amended: when some requested stop has fewer than 24 admissible
\* updates in the trips the scan does not skip, the scan goes through the
\* whole feed, examining every update of every trip update that has a route
\* id and an update list, and each stop's emitted arrivals are the first 8
\* of the stable ascending order of all its admissible updates in those
\* trips.
C15_FullScanOfTripsExactFirstEight ==
    \A self \in Requests :
       LET entities == gtfsData[self].entity
           now      == nowTimestamp[self]
       IN  (/\ pc[self] = "return"
            /\ gtfsData[self].hasEntity
            /\ \E i \in 1..Len(results[self]) :
                  Len(CandidatesAt(entities, Places(entities),
                                   results[self][i].stopId, now))
                     < MAX_ARRIVALS * 3)
           => /\ ei[self] > Len(entities)
              /\ \A e \in 1..Len(entities) :
                    \A u \in 1..Len(entities[e].stopTimeUpdate) :
                       WellFormed(entities[e]) => Examined(self, e, u)
              /\ \A i \in 1..Len(results[self]) :
                    /\ stopArrivals[self][i].arrivals
                          = StableAscending(CandidatesAt(entities, Places(entities),
                                                         results[self][i].stopId, now))
                    /\ results[self][i].arrivals
                          = FirstEight(CandidatesAt(entities, Places(entities),
                                                    results[self][i].stopId, now),
                                       now)

\* one stop is short of 24 and the other has 24 or more, of which 8 are
\* emitted, two of them with the same arrival time from different trips
C15_Witness ==
    /\ pc[1] = "return"
    /\ Len(results[1]) = 2
    /\ ei[1] > Len(gtfsData[1].entity)
    /\ \E i, j \in 1..2 :
          /\ Len(stopArrivals[1][i].arrivals) < MAX_ARRIVALS * 3
          /\ Len(stopArrivals[1][j].arrivals) >= MAX_ARRIVALS * 3
          /\ Len(results[1][j].arrivals) = 8
          /\ stopArrivals[1][j].arrivals[1].arrivalTimestamp
                = stopArrivals[1][j].arrivals[2].arrivalTimestamp
          /\ results[1][j].arrivals[1].deviation
                < results[1][j].arrivals[2].deviation

=============================================================================
